---- MODULE Spec2Model ----
(***************************************************************************)
(* A model of pdfTTS (src/main.py): the PollyTTS object, its construction  *)
(* (client, output filename, input text), its configuration setters and    *)
(* complete_tts (synthesis request, then the audio file).                  *)
(*                                                                         *)
(* Python strings are TLA+ strings; + is \o.  The object's fields are the  *)
(* record self.  The collaborators (boto3, pypdf, the file system, the     *)
(* random source) are nondeterministic choices over their outcomes.        *)
(***************************************************************************)
EXTENDS Integers, Sequences, FiniteSets, TLC

(***************************************************************************)
(* static/options.py: the option registry.  The module is imported by      *)
(* main.py; the values are those the docstrings of main.py list.           *)
(***************************************************************************)
voice_ids ==
    {"Aditi", "Amy", "Astrid", "Bianca", "Brian", "Camila", "Carla", "Carmen",
     "Celine", "Chantal", "Conchita", "Cristiano", "Dora", "Emma", "Enrique",
     "Ewa", "Filiz", "Gabrielle", "Geraint", "Giorgio", "Gwyneth", "Hans",
     "Ines", "Ivy", "Jacek", "Jan", "Joanna", "Joey", "Justin", "Karl",
     "Kendra", "Kevin", "Kimberly", "Lea", "Liv", "Lotte", "Lucia", "Lupe",
     "Mads", "Maja", "Marlene", "Mathieu", "Matthew", "Maxim", "Mia", "Miguel",
     "Mizuki", "Naja", "Nicole", "Olivia", "Penelope", "Raveena", "Ricardo",
     "Ruben", "Russell", "Salli", "Seoyeon", "Takumi", "Tatyana", "Vicki",
     "Vitoria", "Zeina", "Zhiyu"}

output_formats ==
    {"json", "mp3", "ogg_vorbis", "pcm"}

sample_rates ==
    {"8000", "16000", "22050", "24000"}

eng_language_code_dict ==
    [c \in {"en-AU", "en-IN", "en-IE", "en-NZ", "en-ZA", "en-GB", "en-US", "en-GB-WLS"} |->
        CASE c = "en-AU" -> "Australian"
          [] c = "en-IN" -> "Indian"
          [] c = "en-IE" -> "Irish"
          [] c = "en-NZ" -> "New Zealander Kiwi"
          [] c = "en-ZA" -> "South African"
          [] c = "en-GB" -> "English"
          [] c = "en-US" -> "American"
          [] c = "en-GB-WLS" -> "Welsh"]

\* The pool of sample sentences: fixed, not empty, of non-empty sentences.
sample_sentences ==
    {"The quick brown fox jumps over the lazy dog.", "She sells seashells by the seashore."}

(***************************************************************************)
(* Bounds and the inputs the model draws from.                             *)
(***************************************************************************)
\* The most pages a readable PDF of the model holds.
MaxPages == 2

\* The most characters a page text of the model holds.
MaxPageLen == 1

\* The most calls to complete_tts one object sees.
MaxRuns == 1

\* The characters of the page texts.
PageAlphabet ==
    {"a", "\n"}

RECURSIVE StringsUpTo(_)
\* Every string over PageAlphabet of at most n characters.
StringsUpTo(n) ==
    IF n = 0 THEN {""}
    ELSE LET S == StringsUpTo(n - 1)
         IN  S \cup {s \o c : s \in S, c \in PageAlphabet}

\* What page.extract_text() may return.
PageTexts ==
    StringsUpTo(MaxPageLen)

RECURSIVE SeqsUpTo(_, _)
\* Every sequence over S of at most n elements.
SeqsUpTo(S, n) ==
    IF n = 0 THEN {<<>>}
    ELSE LET T == SeqsUpTo(S, n - 1)
         IN  T \cup {Append(t, x) : t \in T, x \in S}

\* A value no hash exists of (a list, a dict): `x in <dict>` raises TypeError.
Unhashable ==
    "<unhashable>"

\* What the path names on disk: nothing, a file pypdf cannot parse, or a PDF
\* with its page texts in order.
PdfMissing ==
    [kind |-> "missing", pages |-> <<>>]

PdfMalformed ==
    [kind |-> "malformed", pages |-> <<>>]

PdfFiles ==
    {PdfMissing, PdfMalformed}
        \cup {[kind |-> "readable", pages |-> p] : p \in SeqsUpTo(PageTexts, MaxPages)}

StrInputs ==
    {"", "Hello world"}

Prefixes ==
    {"", "greet"}

\* What secrets.token_urlsafe(6) may return: 8 URL-safe characters.
Tokens ==
    {"q80vZ3l_", "A-b9_x0Q"}

VoiceArgs ==
    voice_ids \cup {"Nobody", "joanna", "", Unhashable}

FormatArgs ==
    output_formats \cup {"wav", "", Unhashable}

RateArgs ==
    sample_rates \cup {"44100", "", Unhashable}

AccentArgs ==
    DOMAIN eng_language_code_dict \cup {"en-CA", "", Unhashable}

\* The bytes of the audio the service returns.
AudioBytes ==
    "ID3-audio"

NoneResponse ==
    [type |-> "NoneType", keys |-> {}]

\* What client.synthesize_speech may return: a dict with or without the
\* AudioStream key.
Responses ==
    {[type |-> "dict", keys |-> {"AudioStream", "ContentType", "RequestCharacters"}],
     [type |-> "dict", keys |-> {"ContentType", "RequestCharacters"}]}

VARIABLES
    self,         \* the PollyTTS object's fields
    pc,           \* where the program is
    exc,          \* the exception the last call raised to its caller, or "none"
    exit_status,  \* the process's exit status once pc = "exited"
    pdf_file,     \* what pdf_input_path names on disk
    request,      \* the synthesis request of the complete_tts in progress
    stream,       \* the response's audio stream
    out_files,    \* the output files on disk: path and content
    opened,       \* the paths the current complete_tts opened for writing
    runs,         \* the calls to complete_tts so far
    last_synth,   \* how the current run's synthesis call ended
    args,         \* the arguments the constructor was called with
    last_call     \* the last public method called and its argument

vars ==
    <<self, pc, exc, exit_status, pdf_file, request, stream, out_files, opened, runs,
      last_synth, args, last_call>>

(***************************************************************************)
(* __init__, lines 51-74: the fields before the three initial methods.     *)
(***************************************************************************)
init_fields(pdf_input_path, str_input, use_temp_dir, user_file_prefix) ==
    [pdf_input_path   |-> pdf_input_path,
     str_input        |-> str_input,
     aws_client_str   |-> "",
     user_file_prefix |-> user_file_prefix,
     output_filename  |-> "",
     voice_id         |-> "Joanna",
     output_format    |-> "mp3",
     sample_rate      |-> "16000",
     language_code    |-> "en-US",
     use_temp_dir     |-> use_temp_dir,
     client           |-> "None",
     response         |-> NoneResponse]

NoCall ==
    <<"none", "", FALSE>>

NoStream ==
    [state |-> "none", reads |-> 0]

InitEnv ==
    /\ pc = "new"
    /\ exc = "none"
    /\ exit_status = 0
    /\ request = {}
    /\ stream = NoStream
    /\ out_files = {}
    /\ opened = {}
    /\ runs = 0
    /\ last_synth = "none"
    /\ last_call = NoCall

\* The constructor's arguments and the disk, with every input text source.
InitInput ==
    /\ InitEnv
    /\ \E path \in {"", "doc.pdf"}, s \in StrInputs, t \in BOOLEAN, p \in Prefixes :
          /\ self = init_fields(path, s, t, p)
          /\ args = [pdf_input_path |-> path, str_input |-> s, use_temp_dir |-> t,
                     user_file_prefix |-> p]
    /\ pdf_file \in PdfFiles
    /\ self.pdf_input_path = "" => pdf_file = PdfMissing

\* The constructor's arguments of one program: a string and a prefix.
InitCalls ==
    /\ InitEnv
    /\ self = init_fields("", "Hello world", FALSE, "greet")
    /\ args = [pdf_input_path |-> "", str_input |-> "Hello world", use_temp_dir |-> FALSE,
               user_file_prefix |-> "greet"]
    /\ pdf_file = PdfMissing

\* The constructor's arguments with a string and no PDF path.
Init ==
    /\ InitEnv
    /\ \E t \in BOOLEAN, p \in Prefixes :
          /\ self = init_fields("", "Hello world", t, p)
          /\ args = [pdf_input_path |-> "", str_input |-> "Hello world",
                     use_temp_dir |-> t, user_file_prefix |-> p]
    /\ pdf_file = PdfMissing

(***************************************************************************)
(* Construction: _initialize_client, _determine_output_filename,           *)
(* _process_input_text.                                                    *)
(***************************************************************************)
\* The exit status of sys.exit(code) for an integer code.
sys_exit(code) ==
    code % 256

\* The exit status of sys.exit(message), and of an uncaught exception.
SysExitMessage ==
    1

\* random_filename is what secrets.token_urlsafe(6) returned.
determine_output_filename(obj, random_filename) ==
    LET prefix == IF obj.user_file_prefix = ""
                  THEN "pdf_tts_" \o random_filename
                  ELSE obj.user_file_prefix
    IN  [obj EXCEPT !.user_file_prefix = prefix,
                    !.output_filename = prefix \o "." \o obj.output_format]

RECURSIVE text_from_pdf_joined(_)
\* text_from_pdf with the newline between the pages only ("\n".join).
text_from_pdf_joined(pages) ==
    IF pages = <<>> THEN ""
    ELSE IF Len(pages) = 1 THEN pages[1]
    ELSE text_from_pdf_joined(SubSeq(pages, 1, Len(pages) - 1)) \o "\n" \o pages[Len(pages)]

RECURSIVE text_from_pdf(_)
\* The loop over reader.pages: text_from_pdf += page.extract_text() + "\n".
text_from_pdf(pages) ==
    IF pages = <<>> THEN ""
    ELSE text_from_pdf(SubSeq(pages, 1, Len(pages) - 1)) \o pages[Len(pages)] \o "\n"

\* random_sample_text is what random.choice(sample_sentences) returned.
random_text_input(obj, random_sample_text) ==
    [obj EXCEPT !.aws_client_str = random_sample_text]

\* process_input_text with the string input skipped when the path is not found.
process_input_text_skips_string(obj, pdf, random_sample_text) ==
    IF obj.pdf_input_path # ""
    THEN CASE pdf.kind = "readable" ->
                [obj |-> [obj EXCEPT !.aws_client_str = text_from_pdf(pdf.pages)],
                 exc |-> "none"]
           [] pdf.kind = "missing" ->
                [obj |-> random_text_input(obj, random_sample_text), exc |-> "none"]
           [] OTHER ->
                [obj |-> obj, exc |-> "PdfReadError"]
    ELSE IF obj.str_input # ""
    THEN [obj |-> [obj EXCEPT !.aws_client_str = obj.str_input], exc |-> "none"]
    ELSE [obj |-> random_text_input(obj, random_sample_text), exc |-> "none"]

\* pdf is what PdfReader finds at the path; the result is the object and the
\* exception that leaves the method, if any.
process_input_text(obj, pdf, random_sample_text) ==
    IF obj.pdf_input_path # ""
    THEN CASE pdf.kind = "readable" ->
                [obj |-> [obj EXCEPT !.aws_client_str = text_from_pdf(pdf.pages)],
                 exc |-> "none"]
           [] pdf.kind = "missing" ->
                IF obj.str_input # ""
                THEN [obj |-> [obj EXCEPT !.aws_client_str = obj.str_input], exc |-> "none"]
                ELSE [obj |-> random_text_input(obj, random_sample_text), exc |-> "none"]
           [] OTHER ->
                [obj |-> obj, exc |-> "PdfReadError"]
    ELSE IF obj.str_input # ""
    THEN [obj |-> [obj EXCEPT !.aws_client_str = obj.str_input], exc |-> "none"]
    ELSE [obj |-> random_text_input(obj, random_sample_text), exc |-> "none"]

\* PollyTTS(...): lines 77-79.
Construct ==
    /\ pc = "new"
    /\ UNCHANGED <<pdf_file, request, stream, out_files, opened, runs, last_synth, args>>
    /\ \/ \* boto3.client raises BotoCoreError or ClientError: sys.exit(message)
          /\ pc' = "exited"
          /\ exit_status' = SysExitMessage
          /\ UNCHANGED <<self, exc>>
       \/ \E token \in Tokens, sample \in sample_sentences :
            LET with_client == [self EXCEPT !.client = "polly"]
                named == determine_output_filename(with_client, token)
                r == process_input_text(named, pdf_file, sample)
            IN  /\ self' = r.obj
                /\ exc' = r.exc
                /\ pc' = IF r.exc = "none" THEN "ready" ELSE "failed"
                /\ exit_status' = IF r.exc = "none" THEN 0 ELSE SysExitMessage

(***************************************************************************)
(* The configuration methods.  Each operator is the method's effect on the *)
(* object, with the exception that leaves the method, if any.              *)
(***************************************************************************)
\* choose_voice_id falling back to the default voice, as its message says.
choose_voice_id_defaults(obj, voice_id) ==
    IF voice_id \in voice_ids
    THEN [obj |-> [obj EXCEPT !.voice_id = voice_id], exc |-> "none"]
    ELSE [obj |-> [obj EXCEPT !.voice_id = "Joanna"], exc |-> "none"]

\* voice_ids is a sequence (random.choice draws from it): `in` compares by
\* equality and raises for no argument.
choose_voice_id(obj, voice_id) ==
    IF voice_id \in voice_ids
    THEN [obj |-> [obj EXCEPT !.voice_id = voice_id], exc |-> "none"]
    ELSE [obj |-> obj, exc |-> "none"]

\* choose_output_format without the try statement's else clause.
choose_output_format_no_else(obj, output_format) ==
    [obj |-> IF obj.output_format \notin output_formats
             THEN [obj EXCEPT !.output_format = "mp3"]
             ELSE [obj EXCEPT !.output_format = output_format],
     exc |-> "none"]

\* choose_output_format naming the output file after the new format.
choose_output_format_renames(obj, output_format) ==
    [obj |-> [obj EXCEPT !.output_format = "16000",
                         !.output_filename = obj.user_file_prefix \o "." \o "16000"],
     exc |-> "none"]

\* The test is on the field, a string, so it raises for no argument; no
\* exception means the try statement's else clause runs last.
choose_output_format(obj, output_format) ==
    LET try_body == IF obj.output_format \notin output_formats
                    THEN [obj EXCEPT !.output_format = "mp3"]
                    ELSE [obj EXCEPT !.output_format = output_format]
        else_clause == [try_body EXCEPT !.output_format = "16000"]
    IN  [obj |-> else_clause, exc |-> "none"]

choose_sample_rate(obj, sample_rate) ==
    LET try_body == IF obj.sample_rate \notin sample_rates
                    THEN [obj EXCEPT !.sample_rate = "16000"]
                    ELSE [obj EXCEPT !.sample_rate = sample_rate]
        else_clause == [try_body EXCEPT !.sample_rate = "16000"]
    IN  [obj |-> else_clause, exc |-> "none"]

\* eng_language_code_dict is a dict: `in` hashes the argument, and the
\* handler of the TypeError sets "en-US" and raises.
choose_eng_accent(obj, eng_language_code) ==
    IF eng_language_code = Unhashable
    THEN [obj |-> [obj EXCEPT !.language_code = "en-US"], exc |-> "TypeError"]
    ELSE IF eng_language_code \in DOMAIN eng_language_code_dict
    THEN [obj |-> [obj EXCEPT !.language_code = eng_language_code], exc |-> "none"]
    ELSE [obj |-> obj, exc |-> "none"]

\* random_voice is what random.choice(voice_ids) returned.
random_voice_id(obj, random_voice) ==
    [obj |-> [obj EXCEPT !.voice_id = random_voice], exc |-> "none"]

\* random_language_code is what random.choice(list(dict.keys())) returned.
random_eng_accent(obj, random_language_code) ==
    [obj |-> [obj EXCEPT !.language_code = random_language_code], exc |-> "none"]

\* A public method returns r.obj, raising r.exc, to a caller that goes on.
Returns(r) ==
    /\ pc = "ready"
    /\ self' = r.obj
    /\ exc' = r.exc
    /\ UNCHANGED <<pc, exit_status, pdf_file, request, stream, out_files, opened, runs,
                   last_synth, args>>

ChooseVoiceId(voice_id) ==
    Returns(choose_voice_id(self, voice_id))

ChooseOutputFormat(output_format) ==
    Returns(choose_output_format(self, output_format))

ChooseSampleRate(sample_rate) ==
    Returns(choose_sample_rate(self, sample_rate))

ChooseEngAccent(eng_language_code) ==
    Returns(choose_eng_accent(self, eng_language_code))

RandomVoiceId(random_voice) ==
    Returns(random_voice_id(self, random_voice))

RandomEngAccent(random_language_code) ==
    Returns(random_eng_accent(self, random_language_code))

(***************************************************************************)
(* complete_tts: _get_synthesized_speech, then _write_audio_file.          *)
(***************************************************************************)
\* The arguments of client.synthesize_speech.
synthesis_request(obj) ==
    [VoiceId      |-> obj.voice_id,
     OutputFormat |-> obj.output_format,
     Text         |-> obj.aws_client_str,
     LanguageCode |-> obj.language_code,
     SampleRate   |-> obj.sample_rate]

\* _write_audio_file without the test of the response.
has_audio_stream_unchecked(response) ==
    TRUE

\* "AudioStream" in self.response
has_audio_stream(response) ==
    "AudioStream" \in response.keys

gettempdir ==
    "/tmp"

output_path(obj) ==
    IF obj.use_temp_dir
    THEN gettempdir \o "/" \o obj.output_filename
    ELSE obj.output_filename

\* The stream used without closing(): nothing closes it.
closing_exit_leaks(audio_stream) ==
    audio_stream

\* Leaving the `with closing(...)` block, by its end or by an exception
\* (SystemExit is one): the stream is closed.
closing_exit(audio_stream) ==
    [audio_stream EXCEPT !.state = "closed"]

\* open(output_path, "wb"): the file exists and is empty.
open_wb(files, path) ==
    {f \in files : f.path # path} \cup {[path |-> path, content |-> ""]}

\* audio_file.write(data), and the file is closed.
write_file(files, path, data) ==
    {f \in files : f.path # path} \cup {[path |-> path, content |-> data]}

\* complete_tts() is called: _get_synthesized_speech.
GetSynthesizedSpeech ==
    /\ pc = "ready"
    /\ runs < MaxRuns
    /\ runs' = runs + 1
    /\ request' = {synthesis_request(self)}
    /\ opened' = {}
    /\ exc' = "none"
    /\ UNCHANGED <<pdf_file, out_files, args>>
    /\ \/ \E response \in Responses :
            /\ self' = [self EXCEPT !.response = response]
            /\ stream' = IF has_audio_stream(response)
                         THEN [state |-> "open", reads |-> 0]
                         ELSE NoStream
            /\ last_synth' = "response"
            /\ pc' = "write_audio_file"
            /\ UNCHANGED exit_status
       \/ \* BotoCoreError or ClientError: sys.exit(-1)
          /\ last_synth' = "error"
          /\ pc' = "exited"
          /\ exit_status' = sys_exit(-1)
          /\ UNCHANGED <<self, stream>>

\* _write_audio_file: the test of the response, and the with block entered.
WriteAudioFile ==
    /\ pc = "write_audio_file"
    /\ IF has_audio_stream(self.response)
       THEN pc' = "open_file" /\ UNCHANGED exit_status
       ELSE pc' = "exited" /\ exit_status' = sys_exit(-1)
    /\ UNCHANGED <<self, exc, pdf_file, request, stream, out_files, opened, runs,
                   last_synth, args>>

\* open(output_path, "wb"), or its IOError: sys.exit(-1) through the with block.
OpenOutputFile ==
    /\ pc = "open_file"
    /\ UNCHANGED <<self, exc, pdf_file, request, runs, last_synth, args>>
    /\ \/ /\ out_files' = open_wb(out_files, output_path(self))
          /\ opened' = opened \cup {output_path(self)}
          /\ pc' = "write"
          /\ UNCHANGED <<stream, exit_status>>
       \/ /\ stream' = closing_exit(stream)
          /\ pc' = "exited"
          /\ exit_status' = sys_exit(-1)
          /\ UNCHANGED <<out_files, opened>>

\* audio_file.write(audio_stream.read()), or its IOError; the with blocks left.
WriteStream ==
    /\ pc = "write"
    /\ UNCHANGED <<self, exc, pdf_file, opened, runs, last_synth, args>>
    /\ \/ \* complete_tts returns
          /\ out_files' = write_file(out_files, output_path(self), AudioBytes)
          /\ stream' = closing_exit([stream EXCEPT !.reads = @ + 1])
          /\ pc' = "ready"
          /\ request' = {}
          /\ UNCHANGED exit_status
       \/ /\ stream' = closing_exit([stream EXCEPT !.reads = @ + 1])
          /\ pc' = "exited"
          /\ exit_status' = sys_exit(-1)
          /\ UNCHANGED <<out_files, request>>

(***************************************************************************)
(* The specifications.                                                     *)
(***************************************************************************)
\* A program that constructs the object, configures it and calls complete_tts.
Next ==
    \/ Construct /\ UNCHANGED last_call
    \/ \E v \in VoiceArgs : ChooseVoiceId(v) /\ UNCHANGED last_call
    \/ \E f \in FormatArgs : ChooseOutputFormat(f) /\ UNCHANGED last_call
    \/ \E r \in RateArgs : ChooseSampleRate(r) /\ UNCHANGED last_call
    \/ \E c \in AccentArgs : ChooseEngAccent(c) /\ UNCHANGED last_call
    \/ \E v \in voice_ids : RandomVoiceId(v) /\ UNCHANGED last_call
    \/ \E c \in DOMAIN eng_language_code_dict : RandomEngAccent(c) /\ UNCHANGED last_call
    \/ GetSynthesizedSpeech /\ UNCHANGED last_call
    \/ WriteAudioFile /\ UNCHANGED last_call
    \/ OpenOutputFile /\ UNCHANGED last_call
    \/ WriteStream /\ UNCHANGED last_call

Spec ==
    Init /\ [][Next]_vars

\* Construction alone, over every input text source.
NextInput ==
    Construct /\ UNCHANGED last_call

SpecInput ==
    InitInput /\ [][NextInput]_vars

\* last_call after a call of method with arg: the call, and whether the call
\* before it was the same one.
Called(method, arg) ==
    last_call' = <<method, arg, last_call[1] = method /\ last_call[2] = arg>>

\* The configuration methods alone, each call recorded in last_call.
NextCalls ==
    \/ Construct /\ UNCHANGED last_call
    \/ \E v \in VoiceArgs : ChooseVoiceId(v) /\ Called("choose_voice_id", v)
    \/ \E f \in FormatArgs : ChooseOutputFormat(f) /\ Called("choose_output_format", f)
    \/ \E r \in RateArgs : ChooseSampleRate(r) /\ Called("choose_sample_rate", r)
    \/ \E c \in AccentArgs : ChooseEngAccent(c) /\ Called("choose_eng_accent", c)
    \/ \E v \in voice_ids : RandomVoiceId(v) /\ Called("random_voice_id", "")
    \/ \E c \in DOMAIN eng_language_code_dict :
          RandomEngAccent(c) /\ Called("random_eng_accent", "")

SpecCalls ==
    InitCalls /\ [][NextCalls]_vars

(***************************************************************************)
(* The claims.                                                             *)
(***************************************************************************)
\* C1: the synthesis request complete_tts submits has its voice in the voice
\* registry, its format in output_formats, its sample rate in sample_rates and
\* its language code among the keys of the accent table.
C1_RequestFieldsInRegistries ==
    \A r \in request :
        /\ r.VoiceId \in voice_ids
        /\ r.OutputFormat \in output_formats
        /\ r.SampleRate \in sample_rates
        /\ r.LanguageCode \in DOMAIN eng_language_code_dict

\* C2: a call of choose_output_format or choose_sample_rate leaves the field at
\* its default ("mp3", "16000") when the field's value before the call is not
\* in the registry, and at the argument otherwise.
C2_FormatAndRateAssigned ==
    [][/\ last_call'[1] = "choose_output_format" =>
            self'.output_format = IF self.output_format \notin output_formats
                                  THEN "mp3"
                                  ELSE last_call'[2]
       /\ last_call'[1] = "choose_sample_rate" =>
            self'.sample_rate = IF self.sample_rate \notin sample_rates
                                THEN "16000"
                                ELSE last_call'[2]]_vars

Config(obj) ==
    <<obj.voice_id, obj.output_format, obj.sample_rate, obj.language_code>>

\* A call of one of the four setters with a valid argument.
ValidSetterCall(call) ==
    \/ call[1] = "choose_voice_id" /\ call[2] \in voice_ids
    \/ call[1] = "choose_output_format" /\ call[2] \in output_formats
    \/ call[1] = "choose_sample_rate" /\ call[2] \in sample_rates
    \/ call[1] = "choose_eng_accent" /\ call[2] \in DOMAIN eng_language_code_dict

\* C4: a setter called with a valid argument right after a call of the same
\* setter with the same argument leaves the configuration state as the first
\* call left it.
C4_SettersIdempotent ==
    [][last_call'[3] /\ ValidSetterCall(last_call') => Config(self') = Config(self)]_vars

\* C4's case: choose_output_format("pcm") was called twice in a row.
C4_Witness ==
    last_call = <<"choose_output_format", "pcm", TRUE>>

RECURSIVE JoinNewline(_)
\* The texts with a newline between consecutive ones.
JoinNewline(texts) ==
    IF texts = <<>> THEN ""
    ELSE IF Len(texts) = 1 THEN texts[1]
    ELSE texts[1] \o "\n" \o JoinNewline(Tail(texts))

\* Construction completed, with the text of a readable PDF of at least one page.
ReadPdf ==
    /\ pc = "ready"
    /\ args.pdf_input_path # ""
    /\ pdf_file.kind = "readable"
    /\ Len(pdf_file.pages) >= 1

\* C5, as stated: the resolved text of a readable PDF of n >= 1 pages is the
\* page texts in page order with a newline between consecutive pages.
C5_TextIsPagesJoined ==
    ReadPdf => self.aws_client_str = JoinNewline(pdf_file.pages)

\* C5, amended: the resolved text of a readable PDF of n >= 1 pages is the
\* page texts in page order, each followed by a newline (the last one too),
\* whether or not a string input was given.
C5_TextIsPagesEachWithNewline ==
    ReadPdf => self.aws_client_str = JoinNewline(pdf_file.pages) \o "\n"

\* C5's case: a PDF of two different pages was read, a string input given too.
C5_Witness ==
    /\ ReadPdf
    /\ pdf_file.pages = <<"a", "\n">>
    /\ args.str_input # ""

\* The client was made and the PDF path names no file.
PdfNotFound ==
    /\ pc # "new"
    /\ self.client = "polly"
    /\ args.pdf_input_path # ""
    /\ pdf_file.kind = "missing"

\* C6: when the PDF path given names no file, construction completes, and the
\* resolved text is the string input when that is not empty and a sentence of
\* the sample pool otherwise.
C6_NotFoundFallsBack ==
    PdfNotFound =>
        /\ pc = "ready"
        /\ exc = "none"
        /\ IF args.str_input # ""
           THEN self.aws_client_str = args.str_input
           ELSE self.aws_client_str \in sample_sentences

\* C6's case: the path names no file and a string input was given.
C6_Witness ==
    /\ PdfNotFound
    /\ args.str_input = "Hello world"
    /\ self.aws_client_str = "Hello world"

\* C7: whenever construction completes, the resolved text is not empty.
C7_TextNotEmpty ==
    pc = "ready" => self.aws_client_str # ""

\* C8: a synthesis call that fails, or whose response has no audio stream,
\* ends in an exit with a status other than 0 and never in a return, and no
\* output file is opened; a file is opened only after a response that has
\* the audio stream.
C8_NoFileWithoutAudio ==
    /\ last_synth = "error" =>
            pc = "exited" /\ exit_status # 0 /\ opened = {}
    /\ last_synth = "response" /\ "AudioStream" \notin self.response.keys =>
            /\ pc \in {"write_audio_file", "exited"}
            /\ pc = "exited" => exit_status # 0
            /\ opened = {}
    /\ opened # {} =>
            last_synth = "response" /\ "AudioStream" \in self.response.keys

\* C8's case: the response had no audio stream and the process has exited.
C8_Witness ==
    /\ pc = "exited"
    /\ last_synth = "response"
    /\ "AudioStream" \notin self.response.keys

\* The object's filename was set (the client was made).
Named ==
    pc # "new" /\ self.client = "polly"

\* C9: the output filename is the prefix given, or "pdf_tts_" and a random
\* token when none is, then "." and the format at construction ("mp3"); no
\* later step changes it, and the files written are at that name (in the
\* temporary directory when asked), whatever the format has become.
C9_FilenameFixedAtConstruction ==
    /\ [](Named =>
            /\ \E prefix \in IF args.user_file_prefix # ""
                               THEN {args.user_file_prefix}
                               ELSE {"pdf_tts_" \o t : t \in Tokens} :
                   self.output_filename = prefix \o ".mp3"
            /\ \A f \in out_files :
                   f.path = IF args.use_temp_dir
                            THEN "/tmp/" \o self.output_filename
                            ELSE self.output_filename
            /\ \A path \in opened : \E f \in out_files : f.path = path)
    /\ [][Named => self'.output_filename = self.output_filename]_vars

\* C9's case: the format was changed, then the file written at the first name.
C9_Witness ==
    /\ self.output_format # "mp3"
    /\ args.user_file_prefix = "greet"
    /\ ~args.use_temp_dir
    /\ out_files = {[path |-> "greet.mp3", content |-> AudioBytes]}

\* C10: the audio stream is read at most once, and it is not open once
\* complete_tts has returned or the process has exited.
C10_StreamReleased ==
    /\ stream.reads <= 1
    /\ pc \in {"ready", "exited", "failed"} => stream.state # "open"

\* C10's case: opening the output file failed; the stream, unread, is closed.
C10_Witness ==
    /\ pc = "exited"
    /\ stream = [state |-> "closed", reads |-> 0]

====
